---------------------------- MODULE Spec2Model ----------------------------
(***************************************************************************)
(* Model of ops/SHIB/04-02-2024-connect-avax/generate_remote_chains.py:    *)
(* the address padder (pad_address_to_bytes), the template expander        *)
(* (update_tx_builder) and the orchestrator (main).                        *)
(*                                                                         *)
(* Python str values that the program takes apart (addresses) are          *)
(* sequences of one-character strings; str values it only carries around   *)
(* (keys, selectors, document fields) are TLA+ strings.  Python objects    *)
(* that can be mutated (dict, list) live in a heap and are referred to by  *)
(* address, so that sharing between two documents is observable.           *)
(***************************************************************************)
EXTENDS Naturals, Sequences, FiniteSets

VARIABLES
    \* pad_address_to_bytes applied to a drawn address, then to its result
    address, padded, repadded, ppc,
    \* update_tx_builder applied to a drawn base document and mapping
    heap, template, selector_to_pool, result, xpc, base0,
    \* main, run as successive processes sharing only the output file
    pc, run, stdout, file, exitStatus, err, updated_template, outputs

padVars  == <<address, padded, repadded, ppc>>
expVars  == <<template, selector_to_pool, result, xpc, base0>>
mainVars == <<pc, run, stdout, file, exitStatus, err, updated_template, outputs>>
vars     == <<padVars, expVars, mainVars, heap>>

---------------------------------------------------------------------------
(* Bounds of the model *)

\* longest free-form part of a drawn address (before the run of fill digits)
MaxHead == 2
\* how far the drawn addresses go beyond the padding width
MaxOver == 2
\* largest number of pairs of a drawn mapping
MaxPairs == 2
\* number of successive runs of main
MaxRuns == 2

---------------------------------------------------------------------------
(* Module constants (lines 7-16) *)

ARB_TOKEN_POOL ==
    <<"0","x","6","f","9","3","A","D","7","9","6","3","B","B","d","D",
    "8","C","6","5","5","A","0","C","8","1","9","B","9","b","7","9","3",
    "4","7","E","E","0","4","b","7","0">>
AVAX_TOKEN_POOL ==
    <<"0","x","6","f","6","F","5","6","4","5","B","8","6","b","1","f",
    "D","3","c","4","C","0","1","5","8","2","2","a","0","E","6","7","2",
    "1","3","2","D","4","e","2","F","8">>
BASE_TOKEN_POOL ==
    <<"0","x","C","0","2","6","a","e","0","3","C","8","5","7","0","9",
    "3","9","7","9","8","7","2","C","6","6","5","b","1","3","d","B","B",
    "A","8","3","B","5","5","9","8","7">>
BSC_TOKEN_POOL ==
    <<"0","x","7","f","1","f","9","0","E","6","b","6","B","A","D","9",
    "f","c","1","4","c","a","7","1","2","2","4","B","0","7","2","5","4",
    "1","B","7","3","9","b","e","b","3">>
MAINNET_TOKEN_POOL ==
    <<"0","x","3","e","C","7","1","8","a","2","2","B","2","6","8","d",
    "7","d","9","C","e","2","7","D","2","d","c","A","B","7","9","1","1",
    "7","4","D","5","1","5","9","2","0">>

AVAX_SELECTOR == "6433500567565415381"
ARB_SELECTOR  == "4949039107694359620"
BASE_SELECTOR == "15971525489660198786"
BSC_SELECTOR  == "11344663589394136015"

---------------------------------------------------------------------------
(* Strings as sequences of characters *)

HexDigits ==
    {"0","1","2","3","4","5","6","7","8","9",
     "a","b","c","d","e","f","A","B","C","D","E","F"}

IsHex(s) == \A i \in DOMAIN s : s[i] \in HexDigits

\* n copies of the character c
Rep(c, n) == [i \in 1..n |-> c]

\* the Python str a character sequence stands for
RECURSIVE Join(_)
Join(s) == IF s = <<>> THEN "" ELSE Head(s) \o Join(Tail(s))

\* str.lower() on one character, for the characters of the model
LowerChar(c) ==
    CASE c = "A" -> "a" [] c = "B" -> "b" [] c = "C" -> "c"
      [] c = "D" -> "d" [] c = "E" -> "e" [] c = "F" -> "f"
      [] OTHER -> c

---------------------------------------------------------------------------
(* pad_address_to_bytes (lines 20-24) *)

\* the width handed to zfill
PadWidth == 64

\* address.replace('0x', ''): every non-overlapping occurrence of "0x",
\* found scanning from the left, is removed
RECURSIVE Replace0x(_)
Replace0x(s) ==
    IF s = <<>> THEN <<>>
    ELSE IF Len(s) >= 2 /\ s[1] = "0" /\ s[2] = "x"
         THEN Replace0x(SubSeq(s, 3, Len(s)))
         ELSE <<s[1]>> \o Replace0x(Tail(s))

\* a zfill that cuts the string down to its last `width` characters
ZfillTruncating(s, width) ==
    IF Len(s) >= width THEN SubSeq(s, Len(s) - width + 1, Len(s))
    ELSE Rep("0", width - Len(s)) \o s

\* a fill on the wrong side (str.ljust(width, '0'))
ZfillRight(s, width) ==
    IF Len(s) >= width THEN s ELSE s \o Rep("0", width - Len(s))

\* str.zfill(width): a string of at least `width` characters is returned as
\* it is; otherwise zeros are inserted on the left, after a leading sign
Zfill(s, width) ==
    IF Len(s) >= width THEN s
    ELSE IF Len(s) > 0 /\ s[1] \in {"+", "-"}
         THEN <<s[1]>> \o Rep("0", width - Len(s)) \o Tail(s)
         ELSE Rep("0", width - Len(s)) \o s

\* a padder that forgets to strip the marker
pad_address_keep_marker(addr) == <<"0", "x">> \o Zfill(addr, PadWidth)

\* a padder that normalises the case of the digits
pad_address_lower(addr) ==
    LET p == Zfill(Replace0x(addr), PadWidth)
    IN  <<"0", "x">> \o [i \in DOMAIN p |-> LowerChar(p[i])]

pad_address_to_bytes(addr) ==
    LET clean_address == Replace0x(addr)
        padded_ == Zfill(clean_address, PadWidth)
    IN  <<"0", "x">> \o padded_

---------------------------------------------------------------------------
(* Drawn addresses *)

PadAlphabet == {"0", "x", "a", "F", "-"}
FillChars == {"0", "a"}
Markers == {<<>>, <<"0", "x">>}

SeqsUpTo(S, n) == UNION {[1..k -> S] : k \in 0..n}

\* marker (or none), a short free-form part, a run of one hex digit
PadInputs ==
    {m \o h \o Rep(c, n) :
        m \in Markers, h \in SeqsUpTo(PadAlphabet, MaxHead),
        c \in FillChars, n \in 0..(PadWidth + MaxOver)}

---------------------------------------------------------------------------
(* Python values and the heap of mutable objects *)

\* A value is an immutable scalar, held by value, or a reference to a dict
\* or list of the heap.  An int is kept as its decimal literal, which is
\* what json prints of it (createdAt exceeds 32 bits).
Str(s)   == [t |-> "str",  s |-> s, a |-> 0]
Int(s)   == [t |-> "int",  s |-> s, a |-> 0]
Bool(s)  == [t |-> "bool", s |-> s, a |-> 0]
None     == [t |-> "null", s |-> "null", a |-> 0]
Ref(a)   == [t |-> "ref",  s |-> "", a |-> a]

\* A dict is its items in insertion order; a list is its items, keys unused.
Item(k, v) == [k |-> k, v |-> v]
Dict(items) == [t |-> "dict", items |-> items]
List(vals)  == [t |-> "list", items |-> [i \in DOMAIN vals |-> Item("", vals[i])]]

HasKey(h, a, key) == \E i \in DOMAIN h[a].items : h[a].items[i].k = key
KeyIndex(h, a, key) == CHOOSE i \in DOMAIN h[a].items : h[a].items[i].k = key

\* d[key] for the dict at address a
GetItem(h, a, key) == h[a].items[KeyIndex(h, a, key)].v

\* d[key] = val: an existing key keeps its place, a new key goes last
SetItem(h, a, key, val) ==
    IF HasKey(h, a, key)
    THEN [h EXCEPT ![a].items[KeyIndex(h, a, key)].v = val]
    ELSE [h EXCEPT ![a].items = Append(@, Item(key, val))]

\* l.append(val) for the list at address a
ListAppend(h, a, val) == [h EXCEPT ![a].items = Append(@, Item("", val))]

\* copy.copy: a new object holding the same items, children shared
ShallowCopy(h, v) ==
    IF v.t # "ref" THEN [h |-> h, v |-> v]
    ELSE [h |-> Append(h, h[v.a]), v |-> Ref(Len(h) + 1)]

\* copy.deepcopy of a tree-shaped value: every dict and list reachable from
\* v is rebuilt as a new object of the heap, scalars are kept
RECURSIVE DeepCopy(_, _), CopyItems(_, _)
CopyItems(h, items) ==
    IF items = <<>> THEN [h |-> h, items |-> <<>>]
    ELSE LET c == DeepCopy(h, Head(items).v)
             rest == CopyItems(c.h, Tail(items))
         IN  [h |-> rest.h,
              items |-> <<Item(Head(items).k, c.v)>> \o rest.items]

DeepCopy(h, v) ==
    IF v.t # "ref" THEN [h |-> h, v |-> v]
    ELSE LET c == CopyItems(h, h[v.a].items)
         IN  [h |-> Append(c.h, [t |-> h[v.a].t, items |-> c.items]),
              v |-> Ref(Len(c.h) + 1)]

\* the addresses of the objects reachable from v
RECURSIVE ReachFrom(_, _)
ReachFrom(h, v) ==
    IF v.t # "ref" THEN {}
    ELSE {v.a} \cup
         UNION {ReachFrom(h, h[v.a].items[i].v) : i \in DOMAIN h[v.a].items}

\* the content of v, as Python's == compares it: the tree of keys and
\* scalars below v, whatever the addresses of the objects holding it
RECURSIVE Content(_, _), ContentItems(_, _)
ContentItems(h, items) ==
    IF items = <<>> THEN <<>>
    ELSE <<Head(items).k>> \o Content(h, Head(items).v)
         \o ContentItems(h, Tail(items))

Content(h, v) ==
    IF v.t # "ref" THEN <<v.t, v.s>>
    ELSE <<h[v.a].t, "(">> \o ContentItems(h, h[v.a].items) \o <<")">>

---------------------------------------------------------------------------
(* The base document of main (lines 60-94), as main's dict literal builds it *)

StandardHeap == <<
    Dict(<< Item("version", Str("1.0")),
            Item("chainId", Str("43114")),
            Item("createdAt", Int("1738784020211")),
            Item("meta", Ref(2)),
            Item("transactions", Ref(3)) >>),
    Dict(<< Item("name", Str("Token Pool Chain Updates")),
            Item("description", Str("")),
            Item("txBuilderVersion", Str("1.18.0")),
            Item("createdFromSafeAddress",
                 Str("0xbF6512B1bBEeC3a673Feff43C0A182C2b28DFD9f")),
            Item("createdFromOwnerAddress", Str("")),
            Item("checksum",
                 Str("0x9e720fd0c8bace9ee9ac950de106fd7d1081311426122e814e5c094c602a4cd6")) >>),
    List(<< Ref(4) >>),
    Dict(<< Item("to", Str("0x6f6F5645B86b1fD3c4C015822a0E672132D4e2F8")),
            Item("value", Str("0")),
            Item("data", None),
            Item("contractMethod", Ref(5)),
            Item("contractInputsValues", Ref(9)) >>),
    Dict(<< Item("inputs", Ref(6)),
            Item("name", Str("addRemotePool")),
            Item("payable", Bool("false")) >>),
    List(<< Ref(7), Ref(8) >>),
    Dict(<< Item("internalType", Str("uint64")),
            Item("name", Str("remoteChainSelector")),
            Item("type", Str("uint64")) >>),
    Dict(<< Item("internalType", Str("bytes")),
            Item("name", Str("remotePoolAddress")),
            Item("type", Str("bytes")) >>),
    Dict(<< Item("remoteChainSelector", Str("0")),
            Item("remotePoolAddress", Str("0x0")) >>) >>

\* another base document holding one template transaction, whose template
\* has no contractInputsValues yet and whose fields come in another order
OtherHeap == <<
    Dict(<< Item("transactions", Ref(2)),
            Item("version", Str("2.0")) >>),
    List(<< Ref(3) >>),
    Dict(<< Item("to", Str("0x00")),
            Item("contractMethod", Ref(4)) >>),
    Dict(<< Item("name", Str("addRemotePool")) >>) >>

BaseHeaps == {StandardHeap, OtherHeap}

---------------------------------------------------------------------------
(* update_tx_builder (lines 28-48) *)

\* a pair of selector_to_pool
Pair(selector, pool_address) == [selector |-> selector, pool |-> pool_address]

\* the inputs written without the padding
NewInputsUnpadded(selector, pool_address) ==
    Dict(<< Item("remoteChainSelector", Str(selector)),
            Item("remotePoolAddress", Str(Join(pool_address))) >>)

\* the dict literal of lines 40-43
NewInputs(selector, pool_address) ==
    Dict(<< Item("remoteChainSelector", Str(selector)),
            Item("remotePoolAddress",
                 Str(Join(pad_address_to_bytes(pool_address)))) >>)

\* the loop of lines 38-44 over selector_to_pool.items(), in insertion
\* order; new_transactions is the list at address lst
RECURSIVE TxLoop(_, _, _, _)
TxLoop(h, pairs, tx_template, lst) ==
    IF pairs = <<>> THEN h
    ELSE LET new_tx == DeepCopy(h, tx_template)
             h1 == Append(new_tx.h,
                          NewInputs(Head(pairs).selector, Head(pairs).pool))
             h2 == SetItem(h1, new_tx.v.a, "contractInputsValues", Ref(Len(h1)))
             h3 == ListAppend(h2, lst, new_tx.v)
         IN  TxLoop(h3, Tail(pairs), tx_template, lst)

\* an expander that appends to the copied transactions list
update_tx_builder_extend(h, tmpl, pairs) ==
    LET c1 == DeepCopy(h, tmpl)
        c2 == DeepCopy(c1.h, h[GetItem(h, tmpl.a, "transactions").a].items[1].v)
        lst == GetItem(c2.h, c1.v.a, "transactions").a
    IN  [h |-> TxLoop(c2.h, pairs, c2.v, lst), v |-> c1.v]

\* the heap after the call and the value returned
update_tx_builder(h, tmpl, pairs) ==
    LET c1 == DeepCopy(h, tmpl)                    \* updated_template
        c2 == DeepCopy(c1.h,                       \* tx_template
                  c1.h[GetItem(c1.h, tmpl.a, "transactions").a].items[1].v)
        h3 == Append(c2.h, List(<<>>))             \* new_transactions
        lst == Len(h3)
        h4 == TxLoop(h3, pairs, c2.v, lst)
    IN  [h |-> SetItem(h4, c1.v.a, "transactions", Ref(lst)), v |-> c1.v]

\* result['transactions'], as a sequence of transaction addresses
Transactions(h, doc) ==
    LET l == h[GetItem(h, doc.a, "transactions").a].items
    IN  [i \in DOMAIN l |-> l[i].v.a]

---------------------------------------------------------------------------
(* Drawn mappings: a dict keeps its pairs in insertion order, keys unique *)

Selectors == {ARB_SELECTOR, BASE_SELECTOR, BSC_SELECTOR}
Pools == {ARB_TOKEN_POOL, BASE_TOKEN_POOL, <<"a", "B">>}
Pairs == {Pair(s, p) : s \in Selectors, p \in Pools}

Mappings ==
    {m \in SeqsUpTo(Pairs, MaxPairs) :
        \A i, j \in DOMAIN m : i # j => m[i].selector # m[j].selector}

---------------------------------------------------------------------------
(* Values of the variables a specification does not use *)

PadIdle ==
    address = <<>> /\ padded = <<>> /\ repadded = <<>> /\ ppc = "off"
ExpIdle ==
    /\ template = None /\ selector_to_pool = <<>> /\ result = None
    /\ xpc = "off" /\ base0 = <<>>
MainIdle ==
    /\ pc = "off" /\ run = 0 /\ stdout = <<>> /\ file = <<>>
    /\ exitStatus = 0 /\ err = "" /\ updated_template = None /\ outputs = <<>>

---------------------------------------------------------------------------
(* SpecPad: pad_address_to_bytes on a drawn address, then on its own result *)

InitPad ==
    /\ address \in PadInputs
    /\ padded = <<>> /\ repadded = <<>> /\ ppc = "input"
    /\ heap = <<>> /\ ExpIdle /\ MainIdle

Pad ==
    /\ ppc = "input"
    /\ padded' = pad_address_to_bytes(address)
    /\ ppc' = "padded"
    /\ UNCHANGED <<address, repadded, heap, expVars, mainVars>>

PadAgain ==
    /\ ppc = "padded"
    /\ repadded' = pad_address_to_bytes(padded)
    /\ ppc' = "repadded"
    /\ UNCHANGED <<address, padded, heap, expVars, mainVars>>

NextPad == Pad \/ PadAgain

SpecPad == InitPad /\ [][NextPad]_vars

---------------------------------------------------------------------------
(* SpecExpand: update_tx_builder on a drawn base document and mapping,     *)
(* followed by one mutation of the returned document by the caller         *)

InitExpand ==
    /\ heap \in BaseHeaps
    /\ template = Ref(1)
    /\ selector_to_pool \in Mappings
    /\ result = None
    /\ xpc = "start"
    /\ base0 = Content(heap, Ref(1))
    /\ PadIdle /\ MainIdle

Call ==
    /\ xpc = "start"
    /\ LET r == update_tx_builder(heap, template, selector_to_pool)
       IN  heap' = r.h /\ result' = r.v
    /\ xpc' = "returned"
    /\ UNCHANGED <<template, selector_to_pool, base0, padVars, mainVars>>

\* the caller overwrites one item of, or adds an item to, one dict or list
\* it can reach from the returned document
Mutate ==
    /\ xpc = "returned"
    /\ \E a \in ReachFrom(heap, result) :
          \/ \E i \in DOMAIN heap[a].items :
                heap' = [heap EXCEPT ![a].items[i].v = Str("mutated")]
          \/ heap' = [heap EXCEPT ![a].items = Append(@, Item("added", Str("mutated")))]
    /\ xpc' = "mutated"
    /\ UNCHANGED <<template, selector_to_pool, result, base0, padVars, mainVars>>

NextExpand == Call \/ Mutate

SpecExpand == InitExpand /\ [][NextExpand]_vars

---------------------------------------------------------------------------
(* json.dumps(obj, indent=2) and json.dump(obj, f, indent=2) (lines 103,   *)
(* 107): the text, as its lines.  No string of the documents needs an      *)
(* escape.                                                                 *)

RECURSIVE Spaces(_)
Spaces(n) == IF n = 0 THEN "" ELSE " " \o Spaces(n - 1)

Quote(s) == "\"" \o s \o "\""

RECURSIVE DumpLines(_, _, _), DumpItems(_, _, _, _)
\* the lines of the items of a dict or list of type t, each at indent ind,
\* separated by a comma at the end of an item's last line
DumpItems(h, t, items, ind) ==
    IF items = <<>> THEN <<>>
    ELSE LET sub == DumpLines(h, Head(items).v, ind)
             key == IF t = "dict" THEN Quote(Head(items).k) \o ": " ELSE ""
             lines == <<Spaces(ind) \o key \o sub[1]>> \o Tail(sub)
             sep == IF Len(items) > 1 THEN "," ELSE ""
         IN  [lines EXCEPT ![Len(lines)] = @ \o sep]
             \o DumpItems(h, t, Tail(items), ind)

\* the lines of value v whose first line starts at the current column and
\* whose closing bracket stands at indent ind
DumpLines(h, v, ind) ==
    IF v.t = "str" THEN <<Quote(v.s)>>
    ELSE IF v.t # "ref" THEN <<v.s>>
    ELSE IF h[v.a].items = <<>>
         THEN <<IF h[v.a].t = "dict" THEN "{}" ELSE "[]">>
         ELSE <<IF h[v.a].t = "dict" THEN "{" ELSE "[">>
              \o DumpItems(h, h[v.a].t, h[v.a].items, ind + 2)
              \o <<Spaces(ind) \o (IF h[v.a].t = "dict" THEN "}" ELSE "]")>>

JsonDumps(h, v) == DumpLines(h, v, 0)

---------------------------------------------------------------------------
(* Text streams: a text is the sequence of its lines (its split at line    *)
(* breaks), so that the empty text is one empty line                       *)

EmptyText == <<"">>

\* the text after `lines` (a text, or nothing) is written at its end
WriteText(text, lines) ==
    IF lines = <<>> THEN text
    ELSE SubSeq(text, 1, Len(text) - 1)
         \o <<text[Len(text)] \o lines[1]>> \o Tail(lines)

\* the output file, overwritten by main; it need not exist before a run
NoFile == [exists |-> FALSE, text |-> EmptyText]
FileOf(text) == [exists |-> TRUE, text |-> text]

\* an open that keeps what the file holds (mode 'a')
OpenAppend(f) == FileOf(f.text)

\* open(output_filename, 'w') (line 102): the file is created or truncated
OpenWrite(f) == FileOf(EmptyText)

---------------------------------------------------------------------------
(* main (lines 50-113) *)

output_filename == "updated_tx_builder.json"

\* selector_to_pool of lines 53-57, in the order of the literal
MainMapping ==
    << Pair(ARB_SELECTOR, ARB_TOKEN_POOL),
       Pair(BASE_SELECTOR, BASE_TOKEN_POOL),
       Pair(BSC_SELECTOR, BSC_TOKEN_POOL) >>

\* str(e) of the exceptions the steps of the try block can raise: none of
\* them comes from the constants, they come from the machine (MemoryError,
\* whose str is empty) and from the file system (OSError)
ExpandErrors == {""}
OpenErrors ==
    {"[Errno 13] Permission denied: 'updated_tx_builder.json'",
     "[Errno 21] Is a directory: 'updated_tx_builder.json'"}
DumpErrors == {"[Errno 28] No space left on device"}
EchoErrors == {""}

\* the lines print(text) adds to standard output, text given as its lines
StdoutPrint(out, lines) == out \o lines

\* an error message that leaves the description out
ErrorMessageBare(e) == <<"Error occurred: ">>

\* line 112
ErrorMessage(e) == <<"Error occurred: " \o e>>

\* a success message that leaves the filename out
SuccessMessageBare(filename) == <<"", "Successfully wrote updated template">>

\* line 109
SuccessMessage(filename) ==
    <<"", "Successfully wrote updated template to " \o filename>>

\* the files a first run may find
InitialFiles == {NoFile, FileOf(EmptyText), FileOf(<<"{", "  \"stale\": 1", "}">>)}

InitMain ==
    /\ pc = "start" /\ run = 1
    /\ stdout = <<>>
    /\ file \in InitialFiles
    /\ exitStatus = 0
    /\ err = <<>>
    /\ heap = <<>> /\ updated_template = None
    /\ outputs = <<>>
    /\ PadIdle /\ ExpIdle

\* lines 52-94: print("running"), then the two literals
Start ==
    /\ pc = "start"
    /\ stdout' = StdoutPrint(stdout, <<"running">>)
    /\ heap' = StandardHeap
    /\ pc' = "expand"
    /\ UNCHANGED <<run, file, exitStatus, err, updated_template, outputs,
                   padVars, expVars>>

\* line 98
Expand ==
    /\ pc = "expand"
    /\ \/ LET r == update_tx_builder(heap, Ref(1), MainMapping)
          IN  /\ heap' = r.h /\ updated_template' = r.v
              /\ pc' = "open" /\ err' = err
       \/ \E e \in ExpandErrors :
              /\ err' = <<e>> /\ pc' = "except"
              /\ UNCHANGED <<heap, updated_template>>
    /\ UNCHANGED <<run, stdout, file, exitStatus, outputs, padVars, expVars>>

\* line 102
Open ==
    /\ pc = "open"
    /\ \/ file' = OpenWrite(file) /\ pc' = "dump" /\ err' = err
       \/ \E e \in OpenErrors :
              err' = <<e>> /\ pc' = "except" /\ file' = file
    /\ UNCHANGED <<run, stdout, exitStatus, heap, updated_template, outputs,
                   padVars, expVars>>

\* line 103 and the end of the with block: the text is written piece by
\* piece, and a failure leaves the pieces written before it in the file
Dump ==
    /\ pc = "dump"
    /\ LET text == JsonDumps(heap, updated_template)
       IN  \/ /\ file' = FileOf(WriteText(file.text, text))
              /\ pc' = "header" /\ err' = err
           \/ \E e \in DumpErrors, k \in 0..(Len(text) - 1) :
                  /\ file' = FileOf(WriteText(file.text, SubSeq(text, 1, k)))
                  /\ err' = <<e>> /\ pc' = "except"
    /\ UNCHANGED <<run, stdout, exitStatus, heap, updated_template, outputs,
                   padVars, expVars>>

\* line 106
Header ==
    /\ pc = "header"
    /\ stdout' = StdoutPrint(stdout, <<"", "Full updated template:">>)
    /\ pc' = "echo"
    /\ UNCHANGED <<run, file, exitStatus, err, heap, updated_template, outputs,
                   padVars, expVars>>

\* line 107
Echo ==
    /\ pc = "echo"
    /\ \/ /\ stdout' = StdoutPrint(stdout, JsonDumps(heap, updated_template))
          /\ pc' = "success" /\ err' = err
       \/ \E e \in EchoErrors :
              err' = <<e>> /\ pc' = "except" /\ stdout' = stdout
    /\ UNCHANGED <<run, file, exitStatus, heap, updated_template, outputs,
                   padVars, expVars>>

\* line 109, then main returns and the process ends with status 0;
\* outputs records the text the run leaves in the file
Success ==
    /\ pc = "success"
    /\ stdout' = StdoutPrint(stdout, SuccessMessage(output_filename))
    /\ pc' = "done"
    /\ exitStatus' = 0
    /\ outputs' = Append(outputs, file.text)
    /\ UNCHANGED <<run, file, err, heap, updated_template, padVars, expVars>>

\* lines 111-113: except Exception as e catches every exception of the try
\* block, prints it and exits with status 1
Handler ==
    /\ pc = "except"
    /\ stdout' = StdoutPrint(stdout, ErrorMessage(err[1]))
    /\ exitStatus' = 1
    /\ pc' = "exited"
    /\ UNCHANGED <<run, file, err, heap, updated_template, outputs,
                   padVars, expVars>>

\* the program is run again: a new process, the same file system
RunAgain ==
    /\ pc \in {"done", "exited"}
    /\ run < MaxRuns
    /\ run' = run + 1
    /\ pc' = "start"
    /\ stdout' = <<>> /\ exitStatus' = 0 /\ err' = <<>>
    /\ heap' = <<>> /\ updated_template' = None
    /\ UNCHANGED <<file, outputs, padVars, expVars>>

NextMain ==
    \/ Start \/ Expand \/ Open \/ Dump \/ Header \/ Echo
    \/ Success \/ Handler \/ RunAgain

SpecMain == InitMain /\ [][NextMain]_vars

---------------------------------------------------------------------------
(* Claims about pad_address_to_bytes, under SpecPad *)

Marker == <<"0", "x">>
HasMarker(a) == Len(a) >= 2 /\ a[1] = "0" /\ a[2] = "x"

\* the hex-digit part of an address given with or without the marker
HexPart(a) == IF HasMarker(a) THEN SubSeq(a, 3, Len(a)) ELSE a

\* an address whose hex-digit part is made of hex digits, at most 64 of them
IsAddress64(a) == IsHex(HexPart(a)) /\ Len(HexPart(a)) <= 64

\* C4: for an address whose hex-digit part has at most 64 digits, with or
\* without the "0x" prefix, the result has exactly 66 characters: "0x", then
\* 64 characters that end with the original digits, all before them "0".
C4_PaddedShape ==
    (ppc # "input" /\ IsAddress64(address)) =>
        LET d == HexPart(address)
        IN  /\ Len(padded) = 66
            /\ SubSeq(padded, 1, 2) = Marker
            /\ SubSeq(padded, 67 - Len(d), 66) = d
            /\ \A i \in 3..(66 - Len(d)) : padded[i] = "0"

C4_Witness ==
    /\ ppc = "padded" /\ IsAddress64(address) /\ HasMarker(address)
    /\ Len(HexPart(address)) \in 1..63 /\ HexPart(address)[1] # "0"

\* C9: padding is idempotent on padded input: for an address of at most 64
\* hex digits (in particular a 64-character hex string), padding the result
\* of the padding again yields that result.
C9_Idempotent ==
    (ppc = "repadded" /\ IsAddress64(address)) => repadded = padded

C9_Witness ==
    ppc = "repadded" /\ IsHex(address) /\ Len(address) = 64 /\ address[1] # "0"

\* the last 64 characters of s
Last64(s) == SubSeq(s, Len(s) - 63, Len(s))

\* C10 (as stated): for an address whose remainder after removal of the
\* marker is longer than 64 characters, the result is the remainder
\* truncated from the left, down to 64 characters.
C10_Truncated ==
    (ppc # "input" /\ Len(Replace0x(address)) > 64) =>
        padded = Marker \o Last64(Replace0x(address))

\* C10 (amended): for an address whose remainder after removal of the
\* marker is longer than 64 characters, the padding is a no-op and nothing
\* is truncated: the result is "0x" followed by the whole remainder, and is
\* longer than 66 characters.
C10_NotTruncated ==
    (ppc # "input" /\ Len(Replace0x(address)) > 64) =>
        /\ padded = Marker \o Replace0x(address)
        /\ Len(padded) > 66

C10_Witness ==
    ppc = "padded" /\ Len(Replace0x(address)) > 64 /\ IsHex(Replace0x(address))

---------------------------------------------------------------------------
(* Claims about update_tx_builder, under SpecExpand *)

\* the contractInputsValues of the i-th transaction of the result
InputsOf(i) ==
    GetItem(heap, Transactions(heap, result)[i], "contractInputsValues").a

\* C1: the transactions list returned has exactly as many entries as the
\* mapping has pairs (none for the empty mapping).
C1_Count ==
    xpc = "returned" =>
        Len(Transactions(heap, result)) = Len(selector_to_pool)

C1_Witness ==
    /\ xpc = "returned" /\ Len(selector_to_pool) >= 2
    /\ Len(Transactions(heap, result)) = Len(selector_to_pool)

\* C2: the i-th output transaction carries the i-th pair of the mapping, in
\* insertion order: its remoteChainSelector is the pair's key as it is, its
\* remotePoolAddress is pad_address_to_bytes of the pair's value.
C2_Pairs ==
    xpc = "returned" =>
        /\ DOMAIN Transactions(heap, result) = DOMAIN selector_to_pool
        /\ \A i \in DOMAIN selector_to_pool :
              /\ GetItem(heap, InputsOf(i), "remoteChainSelector")
                    = Str(selector_to_pool[i].selector)
              /\ GetItem(heap, InputsOf(i), "remotePoolAddress")
                    = Str(Join(pad_address_to_bytes(selector_to_pool[i].pool)))

C2_Witness ==
    /\ xpc = "returned" /\ Len(selector_to_pool) >= 2
    /\ selector_to_pool[1].selector = BSC_SELECTOR
    /\ selector_to_pool[2].selector = ARB_SELECTOR
    /\ selector_to_pool[1].pool # selector_to_pool[2].pool
    /\ GetItem(heap, InputsOf(2), "remoteChainSelector") = Str(ARB_SELECTOR)

\* C3: the base document is never mutated: its content after the call, and
\* after a later mutation of the result, is its content before the call,
\* and the returned document shares no dict or list with it.
C3_BaseUntouched ==
    xpc \in {"returned", "mutated"} =>
        /\ Content(heap, template) = base0
        /\ ReachFrom(heap, result) \cap ReachFrom(heap, template) = {}

C3_Witness ==
    /\ xpc = "mutated" /\ Len(selector_to_pool) >= 1
    /\ HasKey(heap, result.a, "meta")
    /\ GetItem(heap, GetItem(heap, result.a, "meta").a, "checksum") = Str("mutated")
    /\ GetItem(heap, GetItem(heap, template.a, "meta").a, "checksum") # Str("mutated")

\* the end-to-end scenario: the standard base document and the one-pair
\* mapping of ARB_SELECTOR to ARB_TOKEN_POOL
EndToEnd ==
    /\ xpc = "returned"
    /\ base0 = Content(StandardHeap, Ref(1))
    /\ selector_to_pool = <<Pair(ARB_SELECTOR, ARB_TOKEN_POOL)>>

\* C5 (as stated): in the end-to-end scenario the single transaction has
\* remoteChainSelector "4949039107694359620" and remotePoolAddress
\* "0x0000000000000000000000006f93ad7963bbdd8c655a0c819b9b79347ee04b70".
C5_LowerCase ==
    EndToEnd =>
        /\ Len(Transactions(heap, result)) = 1
        /\ GetItem(heap, InputsOf(1), "remoteChainSelector")
              = Str("4949039107694359620")
        /\ GetItem(heap, InputsOf(1), "remotePoolAddress")
              = Str("0x0000000000000000000000006f93ad7963bbdd8c655a0c819b9b79347ee04b70")

\* C5 (amended): in the end-to-end scenario the single transaction has
\* remoteChainSelector "4949039107694359620" and remotePoolAddress
\* "0x0000000000000000000000006f93AD7963BBdD8C655A0C819B9b79347EE04b70":
\* the digits keep the case they have in the input, only padding is added.
C5_CasePreserved ==
    EndToEnd =>
        /\ Len(Transactions(heap, result)) = 1
        /\ GetItem(heap, InputsOf(1), "remoteChainSelector")
              = Str("4949039107694359620")
        /\ GetItem(heap, InputsOf(1), "remotePoolAddress")
              = Str("0x0000000000000000000000006f93AD7963BBdD8C655A0C819B9b79347EE04b70")

C5_Witness ==
    EndToEnd /\ Len(Transactions(heap, result)) = 1

---------------------------------------------------------------------------
(* Claims about main, under SpecMain *)

\* the text of updated_tx_builder.json after a run of the program
ExpectedJson == <<
    "{",
    "  \"version\": \"1.0\",",
    "  \"chainId\": \"43114\",",
    "  \"createdAt\": 1738784020211,",
    "  \"meta\": {",
    "    \"name\": \"Token Pool Chain Updates\",",
    "    \"description\": \"\",",
    "    \"txBuilderVersion\": \"1.18.0\",",
    "    \"createdFromSafeAddress\": \"0xbF6512B1bBEeC3a673Feff43C0A182C2b28DFD9f\",",
    "    \"createdFromOwnerAddress\": \"\",",
    "    \"checksum\": \"0x9e720fd0c8bace9ee9ac950de106fd7d1081311426122e814e5c094c602a4cd6\"",
    "  },",
    "  \"transactions\": [",
    "    {",
    "      \"to\": \"0x6f6F5645B86b1fD3c4C015822a0E672132D4e2F8\",",
    "      \"value\": \"0\",",
    "      \"data\": null,",
    "      \"contractMethod\": {",
    "        \"inputs\": [",
    "          {",
    "            \"internalType\": \"uint64\",",
    "            \"name\": \"remoteChainSelector\",",
    "            \"type\": \"uint64\"",
    "          },",
    "          {",
    "            \"internalType\": \"bytes\",",
    "            \"name\": \"remotePoolAddress\",",
    "            \"type\": \"bytes\"",
    "          }",
    "        ],",
    "        \"name\": \"addRemotePool\",",
    "        \"payable\": false",
    "      },",
    "      \"contractInputsValues\": {",
    "        \"remoteChainSelector\": \"4949039107694359620\",",
    "        \"remotePoolAddress\": \"0x0000000000000000000000006f93AD7963BBdD8C655A0C819B9b79347EE04b70\"",
    "      }",
    "    },",
    "    {",
    "      \"to\": \"0x6f6F5645B86b1fD3c4C015822a0E672132D4e2F8\",",
    "      \"value\": \"0\",",
    "      \"data\": null,",
    "      \"contractMethod\": {",
    "        \"inputs\": [",
    "          {",
    "            \"internalType\": \"uint64\",",
    "            \"name\": \"remoteChainSelector\",",
    "            \"type\": \"uint64\"",
    "          },",
    "          {",
    "            \"internalType\": \"bytes\",",
    "            \"name\": \"remotePoolAddress\",",
    "            \"type\": \"bytes\"",
    "          }",
    "        ],",
    "        \"name\": \"addRemotePool\",",
    "        \"payable\": false",
    "      },",
    "      \"contractInputsValues\": {",
    "        \"remoteChainSelector\": \"15971525489660198786\",",
    "        \"remotePoolAddress\": \"0x000000000000000000000000C026ae03C857093979872C665b13dBBA83B55987\"",
    "      }",
    "    },",
    "    {",
    "      \"to\": \"0x6f6F5645B86b1fD3c4C015822a0E672132D4e2F8\",",
    "      \"value\": \"0\",",
    "      \"data\": null,",
    "      \"contractMethod\": {",
    "        \"inputs\": [",
    "          {",
    "            \"internalType\": \"uint64\",",
    "            \"name\": \"remoteChainSelector\",",
    "            \"type\": \"uint64\"",
    "          },",
    "          {",
    "            \"internalType\": \"bytes\",",
    "            \"name\": \"remotePoolAddress\",",
    "            \"type\": \"bytes\"",
    "          }",
    "        ],",
    "        \"name\": \"addRemotePool\",",
    "        \"payable\": false",
    "      },",
    "      \"contractInputsValues\": {",
    "        \"remoteChainSelector\": \"11344663589394136015\",",
    "        \"remotePoolAddress\": \"0x0000000000000000000000007f1f90E6b6BAD9fc14ca71224B072541B739beb3\"",
    "      }",
    "    }",
    "  ]",
    "}" >>

SuccessLine == "Successfully wrote updated template to updated_tx_builder.json"

Printed(line) == \E i \in DOMAIN stdout : stdout[i] = line

\* C6: every failure raised during the expansion, the file write or the echo
\* is caught: the run goes to the handler, which prints an error line with
\* the failure's description to standard output and ends the process with
\* status 1; the success line is not printed, and no run that failed ends
\* as a success or with status 0.
C6_FailuresCaught ==
    /\ err # <<>> => pc \in {"except", "exited"}
    /\ pc = "exited" =>
          /\ err # <<>>
          /\ exitStatus = 1
          /\ stdout[Len(stdout)] = "Error occurred: " \o err[1]
          /\ ~Printed(SuccessLine)
    /\ pc = "done" => err = <<>>

C6_Witness ==
    /\ pc = "exited" /\ err = <<"[Errno 28] No space left on device">>
    /\ exitStatus = 1 /\ Len(file.text) = 10

\* C7: every run that completes leaves the same text in the output file as
\* the completed runs before it, whatever the file held when it started.
C7_SameOutput ==
    /\ \A i, j \in DOMAIN outputs : outputs[i] = outputs[j]
    /\ pc = "done" => file.text = outputs[Len(outputs)]

C7_Witness ==
    pc = "done" /\ run = 2 /\ Len(outputs) = 2 /\ exitStatus = 0

NonBlank(lines) == SelectSeq(lines, LAMBDA l : l # "")

\* C8 (as stated): on a successful run standard output consists of the
\* "running" line, the pretty-printed JSON and the success line, in this
\* order (blank lines aside).
C8_ThreeParts ==
    pc = "done" =>
        NonBlank(stdout) = <<"running">> \o ExpectedJson \o <<SuccessLine>>

\* C8 (amended): on a successful run standard output consists of the
\* "running" line, a blank line and the header line "Full updated
\* template:", the pretty-printed JSON of the output document, a blank line
\* and the success line naming the output file, in this order; the success
\* line is printed only once the output file holds the whole document; on a
\* failing run the last line is an error line and the status is not 0.
C8_Output ==
    /\ pc = "done" =>
          stdout = <<"running", "", "Full updated template:">>
                   \o ExpectedJson \o <<"", SuccessLine>>
    /\ Printed(SuccessLine) => file = FileOf(ExpectedJson)
    /\ pc = "exited" =>
          /\ exitStatus # 0
          /\ stdout[Len(stdout)] = "Error occurred: " \o err[1]

C8_Witness ==
    /\ pc = "done" /\ Printed(SuccessLine) /\ Printed("Full updated template:")
    /\ file = FileOf(ExpectedJson)

=============================================================================
